---------------------------- MODULE Spec2Model ----------------------------
(***************************************************************************)
(* Model of the lead delivery pipeline of src/server.js: the webhook       *)
(* handler (find-or-create bot, reply generation, extraction, staging,     *)
(* spreadsheet append, sales notification, cleanup, customer reply) and    *)
(* the admin retry handler, run concurrently against one Postgres store.   *)
(* The serverless webhook handler of src/proxy.js runs the same pipeline   *)
(* between its own entry checks and its final response.                    *)
(*                                                                         *)
(* Every `await` of a handler is one atomic step.  A store call that       *)
(* raises leaves the store unchanged.  The calls made to the outside       *)
(* (model gateway, spreadsheet, messaging, DELETE statements) are          *)
(* recorded in history sets so that properties can speak about them.       *)
(***************************************************************************)
EXTENDS Integers, Sequences, FiniteSets, TLC

(* ------------------------------ bounds -------------------------------- *)
NRuns == 2          \* concurrent webhook invocations
NRetries == 2       \* concurrent admin retry requests
MaxMsgs == 1        \* messages carried by one webhook event
MaxBatch == 2       \* messages carried by the event of a batch run

Runs == 1..NRuns
Admins == 1..NRetries
EventInstances == {"", "A"}                 \* event.instance ("" = absent)
Texts == {<<>>, <<" ">>, <<"h", "i">>}      \* message texts, as character sequences
MaxId == NRuns * MaxMsgs                    \* ids a retry request may name

(* ------------------------------ values -------------------------------- *)
DEFAULT_MODEL == "x-ai/grok-4-fast:free"
NoBot == [id |-> 0, instance_name |-> "", model |-> "", context_json |-> ""]

\* A text (a model reply, a notes field, a message sent to the customer) is a
\* sequence of lexemes: the braces and members of a JSON object, a JSON
\* scalar, or a run of prose.  A member carries a string value, NullMember
\* the value null.
Lexeme(t, key, val) == [t |-> t, key |-> key, val |-> val]
Open == Lexeme("{", "", "")
Close == Lexeme("}", "", "")
Member(key, val) == Lexeme("member", key, val)
NullMember(key) == Lexeme("member_null", key, "")
Scalar(t, val) == Lexeme(t, "", val)
Word(val) == Lexeme("prose", "", val)
ScalarKinds == {"number", "string", "true", "null"}

APOLOGY == <<Word("Sorry, I'm having trouble right now. We'll get back to you shortly.")>>
\* choices[0].message.content of a reply call
COMPLETION == <<Word("Happy to help!")>>
\* JSON.stringify(res.data) of a 2xx body without choices, e.g. an error body
RAW_RESPONSE == <<Open, Member("error", "rate limited"), Close>>

\* choices[0].message.content of an extraction call: the object asked for
GoodReply ==
  <<Open, Member("name", "Ann"), Member("phone", "555-1234"),
    Member("priority", "high"), Member("contact_method", "phone"),
    Member("notes", "urgent"), Close>>
ProseReply == <<Word("I could not find a lead.")>>
ExtractReplies == {GoodReply, ProseReply}
\* the further shapes a model reply can take
ModelReplies ==
  ExtractReplies \cup
  { <<Word("Sure:"), Open, Member("priority", "low"), Close>>,
    <<Open, Member("priority", "low"), Close, Word("Hope this helps.")>>,
    <<Open, Member("name", "Bob")>>,
    <<Scalar("number", "42")>>,
    <<Scalar("string", "hi")>>,
    <<Scalar("true", "true")>>,
    <<Scalar("null", "null")>>,
    <<Open, Member("priority", "urgent"), Member("contact_method", "email"), Close>>,
    <<Open, NullMember("name"), Member("priority", ""), Member("priority", "medium"),
      Close>> }

NOTES_LIMIT == 2000
ParsedLead ==
  [name |-> "Ann", phone |-> "555-1234", priority |-> "high",
   contact_method |-> "phone", notes |-> <<Word("urgent")>>]
FallbackLead ==
  [name |-> "null", phone |-> "null", priority |-> "unknown",
   contact_method |-> "unknown", notes |-> <<>>]
NoLead ==
  [name |-> "", phone |-> "", priority |-> "", contact_method |-> "", notes |-> <<>>]

VARIABLES
  sheetsClient,   \* TRUE iff the spreadsheet client was built at start-up
  SALES_INSTANCE_NAME,    \* TRUE iff the variable is set (non-empty)
  SALES_WHATSAPP_NUMBER,  \* TRUE iff the variable is set (non-empty)
  bots, botSeq,   \* table bots and its SERIAL sequence
  temp_leads, leadSeq,  \* table temp_leads and its SERIAL sequence
  event,          \* event[r]: the body of webhook invocation r
  pc, mi, loc,    \* per invocation: position, message index, handler locals
  acked, aborted, \* per invocation: 200 sent; outer catch reached
  rpc, rloc,      \* per retry request: position and handler locals
  resolutions,    \* history: outcomes of bot resolution
  gwCalls,        \* history: model gateway calls
  appends,        \* history: spreadsheet append calls
  notifies,       \* history: sales notification sends
  replies,        \* history: reply sends to the customer
  staged,         \* history: rows inserted into temp_leads
  deletes         \* history: DELETE statements issued on temp_leads

store == <<bots, botSeq, temp_leads, leadSeq>>
config == <<sheetsClient, SALES_INSTANCE_NAME, SALES_WHATSAPP_NUMBER>>
runv == <<event, pc, mi, loc, acked, aborted>>
retryv == <<rpc, rloc>>
hist == <<resolutions, gwCalls, appends, notifies, replies, staged, deletes>>
vars == <<config, store, runv, retryv, hist>>

RunAttempt(r, i) == [k |-> "run", p |-> r, n |-> i]
RetryAttempt(a) == [k |-> "retry", p |-> a, n |-> 1]
\* a call of the model gateway: whether axios.post resolved, and what
\* callOpenRouter then returned
GwCall(by, purpose, ok, answer) ==
  [by |-> by, purpose |-> purpose, ok |-> ok, answer |-> answer]


(* ------------------------------ helpers ------------------------------- *)
\* String.prototype.trim on a character sequence
RECURSIVE TrimLeft(_)
TrimLeft(s) == IF s # <<>> /\ Head(s) = " " THEN TrimLeft(Tail(s)) ELSE s
RECURSIVE TrimRight(_)
TrimRight(s) ==
  IF s # <<>> /\ s[Len(s)] = " " THEN TrimRight(SubSeq(s, 1, Len(s) - 1)) ELSE s
Trim(s) == TrimRight(TrimLeft(s))

\* faulty variant: only the empty text is skipped
SkipTextEmptyOnly(text) == text = <<>>

\* `!text || text.trim().length === 0`: the entry is skipped
SkipText(text) == text = <<>> \/ Len(Trim(text)) = 0

\* event.instance || event.instanceName || SALES_INSTANCE_NAME || 'default-instance'
InstanceName(ev) ==
  IF ev.instance # "" THEN ev.instance
  ELSE IF SALES_INSTANCE_NAME THEN "sales-instance" ELSE "default-instance"

\* SELECT ... FROM bots WHERE instance_name = $1 LIMIT 1
SelectBots(name) == {b \in bots : b.instance_name = name}

\* faulty variant: the bots table declared without the UNIQUE constraint
NoUniqueConstraint(name) == FALSE

\* instance_name TEXT UNIQUE: an insert of a name already present is refused
UniqueViolation(name) == \E b \in bots : b.instance_name = name

\* faulty variant: the row is created without a model
NewBotNoModel(id, name) ==
  [id |-> id, instance_name |-> name, model |-> "", context_json |-> "{}"]

\* the row INSERT INTO bots ... RETURNING * creates
NewBot(id, name) ==
  [id |-> id, instance_name |-> name, model |-> DEFAULT_MODEL, context_json |-> "{}"]

\* faulty variant: one of the two settings is enough
SalesConfiguredEither == SALES_INSTANCE_NAME \/ SALES_WHATSAPP_NUMBER

\* if (SALES_INSTANCE_NAME && SALES_WHATSAPP_NUMBER)
SalesConfigured == SALES_INSTANCE_NAME /\ SALES_WHATSAPP_NUMBER

\* faulty variant: the flag starts out true
SheetOkInitTrue == TRUE

\* let sheetOk = false; let notifyOk = false: the flags before the delivery
SheetOkInit == FALSE
NotifyOkInit == FALSE

\* faulty variant: the guard does not look at tempLead
CleanupGuardNoLead(tempLead, sheetOk, notifyOk) == sheetOk /\ notifyOk

\* faulty variant: one confirmed delivery is enough to clean up
CleanupGuardEither(tempLead, sheetOk, notifyOk) ==
  tempLead # 0 /\ (sheetOk \/ notifyOk)

\* if (tempLead && sheetOk && notifyOk): the pipeline's cleanup decision
CleanupGuard(tempLead, sheetOk, notifyOk) == tempLead # 0 /\ sheetOk /\ notifyOk

\* faulty variant: the retry cleans up on the spreadsheet leg alone
RetryGuardSheetOnly(sheetOk, notifyOk) == sheetOk

\* if (sheetOk && notifyOk): the retry's cleanup decision
RetryGuard(sheetOk, notifyOk) == sheetOk /\ notifyOk

\* SELECT * FROM temp_leads WHERE id = $1 LIMIT 1
SelectLead(id) == {t \in temp_leads : t.id = id}

\* faulty variant: the DELETE matches no row
DeleteLeadNothing(id) == temp_leads

\* faulty variant: the DELETE has no WHERE clause
DeleteLeadAll(id) == {}

\* DELETE FROM temp_leads WHERE id = $1
DeleteLead(id) == {t \in temp_leads : t.id # id}

InitLoc ==
  [bot |-> NoBot, replyText |-> <<>>, leadObj |-> NoLead, tempLead |-> 0,
   sheetOk |-> FALSE, notifyOk |-> FALSE]
NoResponse == [status |-> 0, ok |-> FALSE, deleted |-> FALSE,
               sheetOk |-> FALSE, notifyOk |-> FALSE]
InitRLoc ==
  [id |-> 0, leadObj |-> NoLead, instance_name |-> "", sheetOk |-> FALSE,
   notifyOk |-> FALSE, res |-> NoResponse]

NoEvent == [instance |-> "", present |-> FALSE, messages |-> <<>>]
Events(maxMsgs) ==
  {[instance |-> i, present |-> p, messages |-> m] :
     i \in EventInstances, p \in BOOLEAN,
     m \in UNION {[1..n -> Texts] : n \in 0..maxMsgs}}

\* The state after start-up: empty tables, and the invocations that will arrive.
\* Invocations outside `runs` and retry requests outside `admins` never arrive.
InitWith(runs, admins, maxMsgs) ==
  /\ sheetsClient \in BOOLEAN
  /\ SALES_INSTANCE_NAME \in BOOLEAN
  /\ SALES_WHATSAPP_NUMBER \in BOOLEAN
  /\ bots = {} /\ botSeq = 0
  /\ temp_leads = {} /\ leadSeq = 0
  /\ event \in [Runs -> Events(maxMsgs) \cup {NoEvent}]
  /\ \A r \in Runs \ runs : event[r] = NoEvent
  /\ pc = [r \in Runs |-> IF r \in runs THEN "start" ELSE "done"]
  /\ mi = [r \in Runs |-> 1]
  /\ loc = [r \in Runs |-> InitLoc]
  /\ acked = [r \in Runs |-> FALSE]
  /\ aborted = [r \in Runs |-> FALSE]
  /\ rpc = [a \in Admins |-> IF a \in admins THEN "idle" ELSE "done"]
  /\ rloc = [a \in Admins |-> InitRLoc]
  /\ resolutions = {} /\ gwCalls = {} /\ appends = {} /\ notifies = {}
  /\ replies = {} /\ staged = {} /\ deletes = {}

\* one webhook invocation and the admin's retry requests
Init == InitWith({1}, Admins, MaxMsgs)

\* concurrent webhook invocations, no retry request; the invocations being
\* interchangeable, the first one is taken to name its instance
InitRace == InitWith(Runs, {}, MaxMsgs) /\ event[1].instance # ""

\* one webhook invocation alone
InitRun == InitWith({1}, {}, MaxMsgs)

\* one webhook invocation whose event carries up to MaxBatch messages
InitBatch == InitWith({1}, {}, MaxBatch)

\* the same, and one retry request of the admin
InitBatchRetry == InitWith({1}, {1}, MaxBatch)

(* ------------------- model gateway and lead extraction ---------------- *)
\* what callOpenRouter returns when axios.post resolves: the first choice's
\* content, or the serialized body when the response has no such choice
callOpenRouter(contents) == contents \cup {RAW_RESPONSE}

\* String.prototype.indexOf: 0-based position of the first `lexeme`, or -1
IndexOf(text, lexeme) ==
  IF \E i \in 1..Len(text) : text[i] = lexeme
    THEN (CHOOSE i \in 1..Len(text) :
            text[i] = lexeme /\ \A j \in 1..(i - 1) : text[j] # lexeme) - 1
    ELSE -1

\* String.prototype.slice(start) and slice(0, end)
SliceFrom(text, start) == SubSeq(text, start + 1, Len(text))
SliceTo(text, end) == SubSeq(text, 1, IF Len(text) < end THEN Len(text) ELSE end)

\* JSON.parse: a lone scalar parses to its value, a braced run of members to
\* an object, anything else is a SyntaxError
JSONParse(text) ==
  IF Len(text) = 1 /\ text[1].t \in ScalarKinds
    THEN [ok |-> TRUE, kind |-> text[1].t, members |-> <<>>]
  ELSE IF /\ Len(text) >= 2 /\ text[1] = Open /\ text[Len(text)] = Close
          /\ \A i \in 2..(Len(text) - 1) : text[i].t \in {"member", "member_null"}
    THEN [ok |-> TRUE, kind |-> "object", members |-> SubSeq(text, 2, Len(text) - 1)]
  ELSE [ok |-> FALSE, kind |-> "", members |-> <<>>]

\* parsed.key: the value of the last member of that name ("" when it is
\* absent, null or the empty string, all of them falsy); null has no properties
Get(parsed, key) ==
  LET at == {i \in 1..Len(parsed.members) : parsed.members[i].key = key}
      last == CHOOSE i \in at : \A j \in at : j <= i
  IN IF at = {} THEN "" ELSE parsed.members[last].val
Throws(parsed) == ~parsed.ok \/ parsed.kind = "null"

\* value || fallback
OrElse(value, fallback) == IF value = "" THEN fallback ELSE value

\* the record of the catch branch: notes is (reply || '').slice(0, 2000)
Salvage(reply) ==
  [name |-> "null", phone |-> "null", priority |-> "unknown",
   contact_method |-> "unknown", notes |-> SliceTo(reply, NOTES_LIMIT)]

\* extractLeadStructured once callOpenRouter has returned `reply`
extractLeadStructured(reply) ==
  LET firstBrace == IndexOf(reply, Open)
      jsonText == IF firstBrace >= 0 THEN SliceFrom(reply, firstBrace) ELSE reply
      parsed == JSONParse(jsonText)
  IN IF Throws(parsed) THEN Salvage(reply)
     ELSE [name |-> OrElse(Get(parsed, "name"), "null"),
           phone |-> OrElse(Get(parsed, "phone"), "null"),
           priority |-> OrElse(Get(parsed, "priority"), "unknown"),
           contact_method |-> OrElse(Get(parsed, "contact_method"), "unknown"),
           notes |-> IF Get(parsed, "notes") = "" THEN <<>>
                     ELSE <<Word(Get(parsed, "notes"))>>]

(* ----------------------- webhook handler, server.js ------------------- *)
Cur(r) == RunAttempt(r, mi[r])
SetLoc(r, f, v) == [loc EXCEPT ![r][f] = v]

\* res.status(200).send({ok:true}); then `if (!messages) return`
WebhookAck(r) ==
  /\ pc[r] = "start"
  /\ acked' = [acked EXCEPT ![r] = TRUE]
  /\ pc' = [pc EXCEPT ![r] = IF event[r].present THEN "loop" ELSE "done"]
  /\ UNCHANGED <<config, store, event, mi, loc, aborted, retryv, hist>>

\* for (const msg of messages): next entry, `continue` on empty text
LoopHead(r) ==
  /\ pc[r] = "loop"
  /\ IF mi[r] > Len(event[r].messages)
       THEN pc' = [pc EXCEPT ![r] = "done"] /\ mi' = mi
       ELSE IF SkipText(event[r].messages[mi[r]])
              THEN mi' = [mi EXCEPT ![r] = @ + 1] /\ pc' = pc
              ELSE pc' = [pc EXCEPT ![r] = "select"] /\ mi' = mi
  /\ UNCHANGED <<config, store, event, loc, acked, aborted, retryv, hist>>

\* faulty variant: the rejection is swallowed and the message goes on
AbortSwallowed(r) ==
  /\ pc' = [pc EXCEPT ![r] = "reply"]
  /\ aborted' = [aborted EXCEPT ![r] = TRUE]
  /\ loc' = [loc EXCEPT ![r] = InitLoc]

\* a rejected await outside every inner try: the outer catch ends the handler
Abort(r) ==
  /\ pc' = [pc EXCEPT ![r] = "done"]
  /\ aborted' = [aborted EXCEPT ![r] = TRUE]
  /\ loc' = [loc EXCEPT ![r] = InitLoc]

\* let botRow = await pg.query('SELECT ... FROM bots WHERE instance_name = $1')
SelectBot(r) ==
  /\ pc[r] = "select"
  /\ \/ Abort(r) /\ UNCHANGED resolutions
     \/ /\ SelectBots(InstanceName(event[r])) = {}
        /\ pc' = [pc EXCEPT ![r] = "insertBot"]
        /\ UNCHANGED <<loc, aborted, resolutions>>
     \/ /\ \E b \in SelectBots(InstanceName(event[r])) :
             /\ loc' = SetLoc(r, "bot", b)
             /\ resolutions' = resolutions \cup
                  {[by |-> Cur(r), how |-> "found", bot |-> b.id]}
        /\ pc' = [pc EXCEPT ![r] = "reply"]
        /\ UNCHANGED aborted
  /\ UNCHANGED <<config, store, event, mi, acked, retryv,
                 gwCalls, appends, notifies, replies, staged, deletes>>

\* const insert = await pg.query('INSERT INTO bots ... RETURNING *'); the
\* sequence advances even when the UNIQUE constraint refuses the row
InsertBot(r) ==
  /\ pc[r] = "insertBot"
  /\ \/ Abort(r) /\ UNCHANGED <<store, resolutions>>
     \/ /\ UniqueViolation(InstanceName(event[r]))
        /\ botSeq' = botSeq + 1
        /\ Abort(r)
        /\ resolutions' = resolutions \cup
             {[by |-> Cur(r), how |-> "refused", bot |-> 0]}
        /\ UNCHANGED <<bots, temp_leads, leadSeq>>
     \/ /\ ~UniqueViolation(InstanceName(event[r]))
        /\ botSeq' = botSeq + 1
        /\ bots' = bots \cup {NewBot(botSeq + 1, InstanceName(event[r]))}
        /\ loc' = SetLoc(r, "bot", NewBot(botSeq + 1, InstanceName(event[r])))
        /\ resolutions' = resolutions \cup
             {[by |-> Cur(r), how |-> "created", bot |-> botSeq + 1]}
        /\ pc' = [pc EXCEPT ![r] = "reply"]
        /\ UNCHANGED <<temp_leads, leadSeq, aborted>>
  /\ UNCHANGED <<config, event, mi, acked, retryv,
                 gwCalls, appends, notifies, replies, staged, deletes>>

\* replyText = await callOpenRouter(...), or the apology when it raises
ReplyGenerate(r) ==
  /\ pc[r] = "reply"
  /\ \/ \E text \in callOpenRouter({COMPLETION}) :
          /\ loc' = SetLoc(r, "replyText", text)
          /\ gwCalls' = gwCalls \cup {GwCall(Cur(r), "reply", TRUE, text)}
     \/ /\ loc' = SetLoc(r, "replyText", APOLOGY)
        /\ gwCalls' = gwCalls \cup {GwCall(Cur(r), "reply", FALSE, <<>>)}
  /\ pc' = [pc EXCEPT ![r] = "extract"]
  /\ UNCHANGED <<config, store, event, mi, acked, aborted, retryv,
                 resolutions, appends, notifies, replies, staged, deletes>>

\* faulty variant: the call is awaited outside a try, so a gateway failure
\* reaches the outer catch
ExtractFromUncaught(r, contents) ==
  /\ pc[r] = "extract"
  /\ \/ /\ \E reply \in callOpenRouter(contents) :
             /\ loc' = SetLoc(r, "leadObj", extractLeadStructured(reply))
             /\ gwCalls' = gwCalls \cup {GwCall(Cur(r), "extract", TRUE, reply)}
        /\ pc' = [pc EXCEPT ![r] = "stage"]
        /\ UNCHANGED aborted
     \/ /\ Abort(r)
        /\ gwCalls' = gwCalls \cup {GwCall(Cur(r), "extract", FALSE, <<>>)}
  /\ UNCHANGED <<config, store, event, mi, acked, retryv,
                 resolutions, appends, notifies, replies, staged, deletes>>

\* leadObj = await extractLeadStructured(...), or the empty record when it
\* raises; `contents` is what the model may answer the extraction prompt with
ExtractFrom(r, contents) ==
  /\ pc[r] = "extract"
  /\ \/ \E reply \in callOpenRouter(contents) :
          /\ loc' = SetLoc(r, "leadObj", extractLeadStructured(reply))
          /\ gwCalls' = gwCalls \cup {GwCall(Cur(r), "extract", TRUE, reply)}
     \/ /\ loc' = SetLoc(r, "leadObj", FallbackLead)
        /\ gwCalls' = gwCalls \cup {GwCall(Cur(r), "extract", FALSE, <<>>)}
  /\ pc' = [pc EXCEPT ![r] = "stage"]
  /\ UNCHANGED <<config, store, event, mi, acked, aborted, retryv,
                 resolutions, appends, notifies, replies, staged, deletes>>

Extract(r) == ExtractFrom(r, ExtractReplies)

\* the row INSERT INTO temp_leads (...) VALUES ($1..$8) RETURNING * creates
TempLeadRow(id, botId, instanceName, leadObj, rawMsg) ==
  [id |-> id, bot_id |-> botId, instance_name |-> instanceName,
   name |-> leadObj.name, phone |-> leadObj.phone, priority |-> leadObj.priority,
   contact_method |-> leadObj.contact_method, notes |-> leadObj.notes,
   raw_message |-> rawMsg]

\* faulty variant: the insert is awaited outside a try, so its rejection
\* reaches the outer catch
StageUncaught(r) ==
  /\ pc[r] = "stage"
  /\ \/ /\ leadSeq' = leadSeq + 1
        /\ temp_leads' = temp_leads \cup
             {TempLeadRow(leadSeq + 1, loc[r].bot.id, InstanceName(event[r]),
                          loc[r].leadObj, event[r].messages[mi[r]])}
        /\ loc' = SetLoc(r, "tempLead", leadSeq + 1)
        /\ staged' = staged \cup
             {[by |-> Cur(r), id |-> leadSeq + 1, lead |-> loc[r].leadObj]}
        /\ pc' = [pc EXCEPT ![r] = "sheet"]
        /\ UNCHANGED aborted
     \/ /\ Abort(r)
        /\ UNCHANGED <<temp_leads, leadSeq, staged>>
  /\ UNCHANGED <<config, bots, botSeq, event, mi, acked, retryv,
                 resolutions, gwCalls, appends, notifies, replies, deletes>>

\* faulty variant: the id is the count of the rows present plus one, not the
\* next value of the sequence
StageReusingIds(r) ==
  /\ pc[r] = "stage"
  /\ \/ /\ leadSeq' = leadSeq + 1
        /\ temp_leads' = temp_leads \cup
             {TempLeadRow(Cardinality(temp_leads) + 1, loc[r].bot.id,
                          InstanceName(event[r]), loc[r].leadObj,
                          event[r].messages[mi[r]])}
        /\ loc' = SetLoc(r, "tempLead", Cardinality(temp_leads) + 1)
        /\ staged' = staged \cup
             {[by |-> Cur(r), id |-> Cardinality(temp_leads) + 1,
               lead |-> loc[r].leadObj]}
     \/ /\ loc' = SetLoc(r, "tempLead", 0)
        /\ UNCHANGED <<temp_leads, leadSeq, staged>>
  /\ pc' = [pc EXCEPT ![r] = "sheet"]
  /\ UNCHANGED <<config, bots, botSeq, event, mi, acked, aborted, retryv,
                 resolutions, gwCalls, appends, notifies, replies, deletes>>

\* tempLead = await insertTempLead(bot.id, instanceName, leadObj, msg), or null
Stage(r) ==
  /\ pc[r] = "stage"
  /\ \/ /\ leadSeq' = leadSeq + 1
        /\ temp_leads' = temp_leads \cup
             {TempLeadRow(leadSeq + 1, loc[r].bot.id, InstanceName(event[r]),
                          loc[r].leadObj, event[r].messages[mi[r]])}
        /\ loc' = SetLoc(r, "tempLead", leadSeq + 1)
        /\ staged' = staged \cup
             {[by |-> Cur(r), id |-> leadSeq + 1, lead |-> loc[r].leadObj]}
     \/ /\ loc' = SetLoc(r, "tempLead", 0)
        /\ UNCHANGED <<temp_leads, leadSeq, staged>>
  /\ pc' = [pc EXCEPT ![r] = "sheet"]
  /\ UNCHANGED <<config, bots, botSeq, event, mi, acked, aborted, retryv,
                 resolutions, gwCalls, appends, notifies, replies, deletes>>

\* faulty variant: the row is deleted as soon as the append is confirmed
DeliverSheetThenDelete(r) ==
  /\ pc[r] = "sheet"
  /\ IF sheetsClient
       THEN \E ok \in BOOLEAN :
              /\ appends' = appends \cup
                   {[by |-> Cur(r), lead |-> loc[r].leadObj, ok |-> ok]}
              /\ loc' = SetLoc(r, "sheetOk", IF ok THEN TRUE ELSE SheetOkInit)
              /\ temp_leads' = IF ok THEN DeleteLead(loc[r].tempLead) ELSE temp_leads
       ELSE /\ loc' = SetLoc(r, "sheetOk", SheetOkInit)
            /\ UNCHANGED <<appends, temp_leads>>
  /\ pc' = [pc EXCEPT ![r] = "notify"]
  /\ UNCHANGED <<config, bots, botSeq, leadSeq, event, mi, acked, aborted, retryv,
                 resolutions, gwCalls, notifies, replies, staged, deletes>>

\* if (sheetsClient) { await appendLeadToSheetRow(leadObj); sheetOk = true; }
DeliverSheet(r) ==
  /\ pc[r] = "sheet"
  /\ IF sheetsClient
       THEN \E ok \in BOOLEAN :
              /\ appends' = appends \cup
                   {[by |-> Cur(r), lead |-> loc[r].leadObj, ok |-> ok]}
              /\ loc' = SetLoc(r, "sheetOk", IF ok THEN TRUE ELSE SheetOkInit)
       ELSE loc' = SetLoc(r, "sheetOk", SheetOkInit) /\ appends' = appends
  /\ pc' = [pc EXCEPT ![r] = "notify"]
  /\ UNCHANGED <<config, store, event, mi, acked, aborted, retryv,
                 resolutions, gwCalls, notifies, replies, staged, deletes>>

\* if (SALES_INSTANCE_NAME && SALES_WHATSAPP_NUMBER) { await sendTextViaEvolution(...); notifyOk = true; }
DeliverNotify(r) ==
  /\ pc[r] = "notify"
  /\ IF SalesConfigured
       THEN \E ok \in BOOLEAN :
              /\ notifies' = notifies \cup
                   {[by |-> Cur(r), lead |-> loc[r].leadObj, ok |-> ok]}
              /\ loc' = SetLoc(r, "notifyOk", IF ok THEN TRUE ELSE NotifyOkInit)
       ELSE loc' = SetLoc(r, "notifyOk", NotifyOkInit) /\ notifies' = notifies
  /\ pc' = [pc EXCEPT ![r] = "cleanup"]
  /\ UNCHANGED <<config, store, event, mi, acked, aborted, retryv,
                 resolutions, gwCalls, appends, replies, staged, deletes>>

\* faulty variant: the delete is awaited outside a try, so its rejection
\* reaches the outer catch
CleanupUncaught(r) ==
  /\ pc[r] = "cleanup"
  /\ IF CleanupGuard(loc[r].tempLead, loc[r].sheetOk, loc[r].notifyOk)
       THEN \E ok \in BOOLEAN :
              /\ deletes' = deletes \cup
                   {[by |-> Cur(r), id |-> loc[r].tempLead, ok |-> ok]}
              /\ temp_leads' = IF ok THEN DeleteLead(loc[r].tempLead) ELSE temp_leads
              /\ IF ok THEN /\ pc' = [pc EXCEPT ![r] = "respond"]
                            /\ UNCHANGED <<loc, aborted>>
                      ELSE Abort(r)
       ELSE /\ pc' = [pc EXCEPT ![r] = "respond"]
            /\ UNCHANGED <<temp_leads, deletes, loc, aborted>>
  /\ UNCHANGED <<config, bots, botSeq, leadSeq, event, mi, acked,
                 retryv, resolutions, gwCalls, appends, notifies, replies, staged>>

\* if (tempLead && sheetOk && notifyOk) { try { await deleteTempLeadById(tempLead.id); } catch {} }
Cleanup(r) ==
  /\ pc[r] = "cleanup"
  /\ IF CleanupGuard(loc[r].tempLead, loc[r].sheetOk, loc[r].notifyOk)
       THEN \E ok \in BOOLEAN :
              /\ deletes' = deletes \cup
                   {[by |-> Cur(r), id |-> loc[r].tempLead, ok |-> ok]}
              /\ temp_leads' = IF ok THEN DeleteLead(loc[r].tempLead) ELSE temp_leads
       ELSE UNCHANGED <<temp_leads, deletes>>
  /\ pc' = [pc EXCEPT ![r] = "respond"]
  /\ UNCHANGED <<config, bots, botSeq, leadSeq, event, mi, loc, acked, aborted,
                 retryv, resolutions, gwCalls, appends, notifies, replies, staged>>

\* try { await sendTextViaEvolution(instanceName, from, replyText); } catch {}
\* and the loop moves to the next entry
Respond(r) ==
  /\ pc[r] = "respond"
  /\ \E ok \in BOOLEAN :
       replies' = replies \cup
         {[by |-> Cur(r), text |-> loc[r].replyText,
           n |-> Cardinality({x \in replies : x.by = Cur(r)}) + 1]}
  /\ loc' = [loc EXCEPT ![r] = InitLoc]
  /\ mi' = [mi EXCEPT ![r] = @ + 1]
  /\ pc' = [pc EXCEPT ![r] = "loop"]
  /\ UNCHANGED <<config, store, event, acked, aborted, retryv,
                 resolutions, gwCalls, appends, notifies, staged, deletes>>

(* ----------------- serverless webhook handler, proxy.js --------------- *)
\* The serverless handler takes one message per event (event.data.message,
\* here the first entry) and runs the same statements from the bot lookup to
\* the customer reply; it differs in how it starts and in when it answers.

\* if (!event?.data?.message) return res.status(200).json({ok:true});
\* if (!text.trim()) return res.status(200).json({ok:true}); otherwise the
\* pipeline starts, nothing having been sent to the caller
HandlerEntry(r) ==
  /\ pc[r] = "start"
  /\ IF \/ ~event[r].present \/ Len(event[r].messages) = 0
        \/ SkipText(event[r].messages[1])
       THEN /\ acked' = [acked EXCEPT ![r] = TRUE]
            /\ pc' = [pc EXCEPT ![r] = "done"]
       ELSE /\ pc' = [pc EXCEPT ![r] = "select"]
            /\ acked' = acked
  /\ UNCHANGED <<config, store, event, mi, loc, aborted, retryv, hist>>

\* return res.status(200).json({ ok: true, processed: true }), after the reply
HandlerReturn(r) ==
  /\ pc[r] = "loop"
  /\ acked' = [acked EXCEPT ![r] = TRUE]
  /\ pc' = [pc EXCEPT ![r] = "done"]
  /\ UNCHANGED <<config, store, event, mi, loc, aborted, retryv, hist>>

\* catch (err) { return res.status(200).json({ ok: true, error: err.message }) }
HandlerCatch(r) ==
  /\ pc[r] = "done" /\ aborted[r] /\ ~acked[r]
  /\ acked' = [acked EXCEPT ![r] = TRUE]
  /\ UNCHANGED <<config, store, event, pc, mi, loc, aborted, retryv, hist>>

(* ------------------- admin retry handler, server.js ------------------- *)
\* faulty variant: the notes column is not copied
LeadOfRowNoNotes(t) ==
  [name |-> t.name, phone |-> t.phone, priority |-> t.priority,
   contact_method |-> t.contact_method, notes |-> <<>>]

\* const leadObj = { name: t.name, phone: t.phone, ... }
LeadOfRow(t) ==
  [name |-> t.name, phone |-> t.phone, priority |-> t.priority,
   contact_method |-> t.contact_method, notes |-> t.notes]

\* faulty variant: the empty lookup is answered with the default status
RespondNotFoundAs200 == [NoResponse EXCEPT !.status = 200]

\* res.status(404).json({ error: 'not found' })
Respond404 == [NoResponse EXCEPT !.status = 404]

\* faulty variant: the success body does not report the deletion
RespondDeletedWrong == [NoResponse EXCEPT !.status = 200, !.ok = TRUE]

\* res.json({ ok: true, deleted: true })
RespondDeleted == [NoResponse EXCEPT !.status = 200, !.ok = TRUE, !.deleted = TRUE]

\* faulty variant: the two flags are reported in each other's place
RespondFailedSwapped(sheetOk, notifyOk) ==
  [NoResponse EXCEPT !.status = 200, !.sheetOk = notifyOk, !.notifyOk = sheetOk]

\* res.json({ ok: false, sheetOk, notifyOk })
RespondFailed(sheetOk, notifyOk) ==
  [NoResponse EXCEPT !.status = 200, !.sheetOk = sheetOk, !.notifyOk = notifyOk]

\* const q = await pg.query('SELECT * FROM temp_leads WHERE id = $1'); 404 when empty
RetryLookup(a) ==
  /\ rpc[a] = "idle"
  /\ \E id \in 1..MaxId :
       \/ /\ rpc' = [rpc EXCEPT ![a] = "crashed"]
          /\ rloc' = [rloc EXCEPT ![a].id = id]
       \/ /\ SelectLead(id) = {}
          /\ rpc' = [rpc EXCEPT ![a] = "done"]
          /\ rloc' = [rloc EXCEPT ![a].id = id, ![a].res = Respond404]
       \/ \E t \in SelectLead(id) :
            /\ rpc' = [rpc EXCEPT ![a] = "sheet"]
            /\ rloc' = [rloc EXCEPT ![a].id = id, ![a].leadObj = LeadOfRow(t),
                                    ![a].instance_name = t.instance_name]
  /\ UNCHANGED <<config, store, runv, hist>>

\* try { if (sheetsClient) { await appendLeadToSheetRow(leadObj); sheetOk = true; } } catch {}
RetrySheet(a) ==
  /\ rpc[a] = "sheet"
  /\ IF sheetsClient
       THEN \E ok \in BOOLEAN :
              /\ appends' = appends \cup
                   {[by |-> RetryAttempt(a), lead |-> rloc[a].leadObj, ok |-> ok]}
              /\ rloc' = [rloc EXCEPT ![a].sheetOk = IF ok THEN TRUE ELSE SheetOkInit]
       ELSE rloc' = [rloc EXCEPT ![a].sheetOk = SheetOkInit] /\ appends' = appends
  /\ rpc' = [rpc EXCEPT ![a] = "notify"]
  /\ UNCHANGED <<config, store, runv,
                 resolutions, gwCalls, notifies, replies, staged, deletes>>

\* try { if (SALES_...) { await sendTextViaEvolution(...); notifyOk = true; } } catch {}
RetryNotify(a) ==
  /\ rpc[a] = "notify"
  /\ IF SalesConfigured
       THEN \E ok \in BOOLEAN :
              /\ notifies' = notifies \cup
                   {[by |-> RetryAttempt(a), lead |-> rloc[a].leadObj, ok |-> ok]}
              /\ rloc' = [rloc EXCEPT ![a].notifyOk = IF ok THEN TRUE ELSE NotifyOkInit]
       ELSE rloc' = [rloc EXCEPT ![a].notifyOk = NotifyOkInit] /\ notifies' = notifies
  /\ rpc' = [rpc EXCEPT ![a] = "cleanup"]
  /\ UNCHANGED <<config, store, runv,
                 resolutions, gwCalls, appends, replies, staged, deletes>>

\* if (sheetOk && notifyOk) { await deleteTempLeadById(id); res.json({ok:true, deleted:true}) }
\* else res.json({ok:false, sheetOk, notifyOk}); a rejected delete leaves no response
RetryCleanup(a) ==
  /\ rpc[a] = "cleanup"
  /\ IF RetryGuard(rloc[a].sheetOk, rloc[a].notifyOk)
       THEN \E ok \in BOOLEAN :
              /\ deletes' = deletes \cup
                   {[by |-> RetryAttempt(a), id |-> rloc[a].id, ok |-> ok]}
              /\ temp_leads' = IF ok THEN DeleteLead(rloc[a].id) ELSE temp_leads
              /\ rpc' = [rpc EXCEPT ![a] = IF ok THEN "done" ELSE "crashed"]
              /\ rloc' = IF ok THEN [rloc EXCEPT ![a].res = RespondDeleted] ELSE rloc
       ELSE /\ rloc' = [rloc EXCEPT ![a].res =
                          RespondFailed(rloc[a].sheetOk, rloc[a].notifyOk)]
            /\ rpc' = [rpc EXCEPT ![a] = "done"]
            /\ UNCHANGED <<temp_leads, deletes>>
  /\ UNCHANGED <<config, bots, botSeq, leadSeq, runv,
                 resolutions, gwCalls, appends, notifies, replies, staged>>

(* --------------------------- specification ---------------------------- *)
RunStep(r) ==
  \/ WebhookAck(r) \/ LoopHead(r) \/ SelectBot(r) \/ InsertBot(r)
  \/ ReplyGenerate(r) \/ Extract(r) \/ Stage(r) \/ DeliverSheet(r)
  \/ DeliverNotify(r) \/ Cleanup(r) \/ Respond(r)

RetryStep(a) == RetryLookup(a) \/ RetrySheet(a) \/ RetryNotify(a) \/ RetryCleanup(a)

Next == (\E r \in Runs : RunStep(r)) \/ (\E a \in Admins : RetryStep(a))

Spec == Init /\ [][Next]_vars

NextRace == \E r \in Runs : RunStep(r)
SpecRace == InitRace /\ [][NextRace]_vars

\* one invocation working through a batch of messages
SpecBatch == InitBatch /\ [][NextRace]_vars
SpecBatchRetry == InitBatchRetry /\ [][Next]_vars

\* one invocation, the model answering the extraction prompt in every shape
NextExtract ==
  \E r \in Runs :
    \/ WebhookAck(r) \/ LoopHead(r) \/ SelectBot(r) \/ InsertBot(r)
    \/ ReplyGenerate(r) \/ ExtractFrom(r, ModelReplies) \/ Stage(r)
    \/ DeliverSheet(r) \/ DeliverNotify(r) \/ Cleanup(r) \/ Respond(r)
SpecExtract == InitRun /\ [][NextExtract]_vars

\* one invocation of the serverless handler
NextServerless ==
  \E r \in Runs :
    \/ HandlerEntry(r) \/ SelectBot(r) \/ InsertBot(r) \/ ReplyGenerate(r)
    \/ Extract(r) \/ Stage(r) \/ DeliverSheet(r) \/ DeliverNotify(r)
    \/ Cleanup(r) \/ Respond(r) \/ HandlerReturn(r) \/ HandlerCatch(r)
SpecServerless == InitRun /\ [][NextServerless]_vars


(* ------------------------- reading the histories ---------------------- *)
RunKeys == {RunAttempt(r, i) : r \in Runs, i \in 1..MaxBatch}
RetryKeys == {RetryAttempt(a) : a \in Admins}

AppendOk(k) == \E x \in appends : x.by = k /\ x.ok
NotifyOk(k) == \E x \in notifies : x.by = k /\ x.ok
StagedBy(k) == {st \in staged : st.by = k}
RowPresent(id) == SelectLead(id) # {}
RowOf(k) == {t \in temp_leads : \E st \in StagedBy(k) : st.id = t.id}
DeleteFailed(k) == \E d \in deletes : d.by = k /\ ~d.ok
RepliesBy(k) == {x \in replies : x.by = k}
\* the customer reply is the last step of a message's pipeline run
Finished(k) == RepliesBy(k) # {}
RetryDeleted(k) ==
  \E st \in StagedBy(k), d \in deletes : d.id = st.id /\ d.by.k = "retry" /\ d.ok
\* both legs confirmed in one attempt: the run itself, or a retry of its row
Delivered(k) ==
  \/ AppendOk(k) /\ NotifyOk(k)
  \/ \E a \in Admins, st \in StagedBy(k) :
       /\ rloc[a].id = st.id
       /\ AppendOk(RetryAttempt(a)) /\ NotifyOk(RetryAttempt(a))
Resolved(k) == \E e \in resolutions : e.by = k /\ e.how \in {"found", "created"}
NonEmpty(r, i) ==
  /\ event[r].present
  /\ i <= Len(event[r].messages)
  /\ ~SkipText(event[r].messages[i])
MsgOver(r, i) == pc[r] = "done" \/ mi[r] > i
Found(a) == rloc[a].leadObj # NoLead
RetryOver(a) == rpc[a] \in {"done", "crashed"}

(* ------------------------------- claims ------------------------------- *)

\* C1: every DELETE issued on temp_leads, by a pipeline run or by a retry, is
\* issued by an attempt whose spreadsheet append and whose sales notification
\* for that very lead both succeeded.
C1_DeleteOnlyAfterBothDelivered ==
  \A d \in deletes :
    \E st \in staged :
      /\ st.id = d.id
      /\ [by |-> d.by, lead |-> st.lead, ok |-> TRUE] \in appends
      /\ [by |-> d.by, lead |-> st.lead, ok |-> TRUE] \in notifies

\* a run and a retry have each issued a delete
C1_Witness ==
  \E d1, d2 \in deletes : d1.by.k = "run" /\ d2.by.k = "retry"

\* C2 as stated: once a message's run has finished, its row exists iff the
\* staging insert succeeded and the append or the notification failed.
C2_RowIffUndelivered ==
  \A k \in RunKeys :
    Finished(k) =>
      (RowOf(k) # {} <=> (StagedBy(k) # {} /\ (~AppendOk(k) \/ ~NotifyOk(k))))

\* C2 amended: once a message's run has finished, its row exists iff the
\* staging insert succeeded, and the append or the notification or the run's
\* own cleanup delete failed, and no retry has deleted the row since.
C2_RowIffUndeliveredOrDeleteFailed ==
  \A k \in RunKeys :
    Finished(k) =>
      (RowOf(k) # {} <=>
         /\ StagedBy(k) # {}
         /\ (~AppendOk(k) \/ ~NotifyOk(k) \/ DeleteFailed(k))
         /\ ~RetryDeleted(k))

\* a finished run, both legs confirmed, whose cleanup delete failed: the row stays
C2_Witness ==
  \E k \in RunKeys :
    /\ Finished(k) /\ AppendOk(k) /\ NotifyOk(k)
    /\ DeleteFailed(k) /\ RowOf(k) # {}

\* C3 as stated: when the run of a message that got past extraction ends,
\* either both legs were confirmed or the row holding the lead is in the store.
C3_NeverDiscardedUndelivered ==
  \A k \in RunKeys : Finished(k) => (Delivered(k) \/ RowOf(k) # {})

\* C3 amended: the same, for every message whose staging insert succeeded.
C3_StagedNeverDiscardedUndelivered ==
  \A k \in RunKeys :
    (Finished(k) /\ StagedBy(k) # {}) =>
      \/ Delivered(k)
      \/ \E t \in RowOf(k), st \in StagedBy(k) : LeadOfRow(t) = st.lead

\* a finished run whose append failed and whose row is kept for a retry
C3_Witness ==
  \E k \in RunKeys :
    /\ Finished(k) /\ StagedBy(k) # {} /\ ~AppendOk(k) /\ RowOf(k) # {}
    /\ \E a \in Admins : Found(a) /\ rpc[a] = "done" /\ ~rloc[a].res.ok

\* C4 as stated: every message with non-empty text gets exactly one reply
\* attempt during its run, whatever fails upstream, bot resolution included.
C4_OneReplyPerMessage ==
  \A r \in Runs, i \in 1..MaxMsgs :
    NonEmpty(r, i) =>
      /\ Cardinality(RepliesBy(RunAttempt(r, i))) <= 1
      /\ MsgOver(r, i) => Cardinality(RepliesBy(RunAttempt(r, i))) = 1

\* C4 amended: every message with non-empty text whose bot resolution
\* succeeded gets exactly one reply attempt during its run, whatever fails later.
C4_OneReplyPerResolvedMessage ==
  \A r \in Runs, i \in 1..MaxMsgs :
    NonEmpty(r, i) =>
      /\ Cardinality(RepliesBy(RunAttempt(r, i))) <= 1
      /\ (MsgOver(r, i) /\ Resolved(RunAttempt(r, i))) =>
            Cardinality(RepliesBy(RunAttempt(r, i))) = 1

\* a reply was attempted although model call, staging, append and delivery failed
C4_Witness ==
  \E r \in Runs :
    LET k == RunAttempt(r, 1) IN
      /\ pc[r] = "done" /\ Cardinality(RepliesBy(k)) = 1
      /\ \E x \in RepliesBy(k) : x.text = APOLOGY
      /\ StagedBy(k) = {}
      /\ \E x \in appends : x.by = k /\ ~x.ok
      /\ \E x \in notifies : x.by = k /\ ~x.ok

\* C5: the bots table never holds two rows of one identity, and once a run
\* has found, created or been refused a row for its identity, exactly one row
\* of that identity exists.
C5_OneBotPerIdentity ==
  /\ \A b1, b2 \in bots : b1.instance_name = b2.instance_name => b1 = b2
  /\ \A e \in resolutions :
       Cardinality(SelectBots(InstanceName(event[e.by.p]))) = 1

\* two runs raced on one unseen identity: one created the row, one was refused
C5_Witness ==
  \E e1, e2 \in resolutions :
    /\ e1.how = "created" /\ e2.how = "refused"
    /\ InstanceName(event[e1.by.p]) = InstanceName(event[e2.by.p])

\* C6: a run whose bot INSERT is refused as a duplicate is not aborted: it
\* goes on with the winner's row and, when it is over, has replied.
C6_RaceLoserContinues ==
  \A e \in resolutions :
    e.how = "refused" =>
      /\ ~aborted[e.by.p]
      /\ pc[e.by.p] = "done" => (Resolved(e.by) /\ RepliesBy(e.by) # {})

C8_RetryFrame ==
  [][(rpc' # rpc) =>
       /\ UNCHANGED <<gwCalls, replies, staged, leadSeq, resolutions, bots, botSeq>>
       /\ temp_leads' \subseteq temp_leads
       /\ \A x \in (appends' \ appends) \cup (notifies' \ notifies) :
            /\ x.by \in RetryKeys
            /\ \E st \in staged : st.id = rloc[x.by.p].id /\ x.lead = st.lead]_vars

\* a retry has appended, notified and deleted
C8_Witness ==
  \E a \in Admins :
    /\ rpc[a] = "done"
    /\ AppendOk(RetryAttempt(a)) /\ NotifyOk(RetryAttempt(a))
    /\ \E d \in deletes : d.by = RetryAttempt(a) /\ d.ok

\* C9: a retry that found its row and in which the append or the notification
\* failed or was not configured answers {ok:false, sheetOk, notifyOk} with the
\* outcome of each leg in this attempt, issues no DELETE, and leaves the row
\* as staged unless another attempt deletes it.
C9_FailedRetryKeepsRow ==
  \A a \in Admins :
    (/\ Found(a) /\ RetryOver(a)
     /\ ~(AppendOk(RetryAttempt(a)) /\ NotifyOk(RetryAttempt(a)))) =>
      /\ rpc[a] = "done"
      /\ rloc[a].res = [status |-> 200, ok |-> FALSE, deleted |-> FALSE,
                         sheetOk |-> AppendOk(RetryAttempt(a)),
                         notifyOk |-> NotifyOk(RetryAttempt(a))]
      /\ \A d \in deletes : d.by # RetryAttempt(a)
      /\ (\A d \in deletes : d.id = rloc[a].id => ~d.ok) =>
            \E t \in SelectLead(rloc[a].id), st \in staged :
              st.id = t.id /\ LeadOfRow(t) = st.lead

\* a retry whose append succeeded and whose notification failed has answered
C9_Witness ==
  \E a \in Admins :
    /\ Found(a) /\ rpc[a] = "done"
    /\ AppendOk(RetryAttempt(a))
    /\ \E x \in notifies : x.by = RetryAttempt(a) /\ ~x.ok
    /\ rloc[a].res.sheetOk /\ ~rloc[a].res.notifyOk /\ RowPresent(rloc[a].id)

\* C10: with no spreadsheet client, sheetOk is false in every run and every
\* retry, no append is attempted, no DELETE is issued and every staged row
\* stays in the store.
C10_NoSheetsClientNeverDeletes ==
  ~sheetsClient =>
    /\ appends = {} /\ deletes = {}
    /\ \A r \in Runs : ~loc[r].sheetOk
    /\ \A a \in Admins : ~rloc[a].sheetOk /\ ~rloc[a].res.ok /\ ~rloc[a].res.sheetOk
    /\ \A st \in staged : RowPresent(st.id)

\* no spreadsheet client; the run's and a retry's notification both succeeded
C10_Witness ==
  /\ ~sheetsClient
  /\ \E k \in RunKeys, a \in Admins :
       /\ Finished(k) /\ NotifyOk(k) /\ RowOf(k) # {}
       /\ rpc[a] = "done" /\ NotifyOk(RetryAttempt(a)) /\ rloc[a].res.notifyOk

\* C11: a DELETE that completes removes the row of that id and nothing else,
\* whether or not the row was still there: on an id that is absent (never
\* staged, or already deleted by the run's cleanup or by a retry) it completes
\* as well, leaves the table as it was, and the handler goes on as after any
\* other delete.
C11_DeleteIdempotent ==
  [][\A d \in deletes' \ deletes :
       d.ok =>
         /\ temp_leads' = {t \in temp_leads : t.id # d.id}
         /\ SelectLead(d.id) = {} => temp_leads' = temp_leads
         /\ d.by.k = "run" => pc'[d.by.p] = "respond"
         /\ d.by.k = "retry" =>
               /\ rpc'[d.by.p] = "done"
               /\ rloc'[d.by.p].res.ok /\ rloc'[d.by.p].res.deleted]_vars

\* the run's cleanup and a racing retry both deleted one id, the second of
\* them finding it gone, while the row of the other message stayed
C11_Witness ==
  \E d1, d2 \in deletes :
    /\ d1.id = d2.id /\ d1.ok /\ d2.ok
    /\ d1.by.k = "run" /\ d2.by.k = "retry"
    /\ rpc[d2.by.p] = "done" /\ rloc[d2.by.p].res.deleted
    /\ \E t \in temp_leads : t.id # d1.id

\* every field of a lead record is set
IsLead(l) == l.name # "" /\ l.phone # "" /\ l.priority # "" /\ l.contact_method # ""

HasObject(text) ==
  \E i, j \in 1..Len(text) :
    /\ i < j /\ text[i] = Open /\ text[j] = Close
    /\ \A n \in (i + 1)..(j - 1) : text[n].t \in {"member", "member_null"}

\* the extraction answer of the message a run is working on, once returned
AnswerOf(r) ==
  {g \in gwCalls : g.by = Cur(r) /\ g.purpose = "extract" /\ g.ok}
PastExtract(r) == pc[r] \in {"stage", "sheet", "notify", "cleanup", "respond"}

\* C13: when the model's answer holds no JSON object (prose, or another JSON
\* value: a number, a quoted string, true, null), the record extracted is
\* name = null, phone = null, priority = contact_method = "unknown" and notes
\* = the answer cut at 2000 characters.
C13_NoObjectGivesSalvage ==
  \A r \in Runs : \A g \in AnswerOf(r) :
    (PastExtract(r) /\ ~HasObject(g.answer)) =>
      loc[r].leadObj =
        [name |-> "null", phone |-> "null", priority |-> "unknown",
         contact_method |-> "unknown",
         notes |-> SubSeq(g.answer, 1,
                          IF Len(g.answer) < 2000 THEN Len(g.answer) ELSE 2000)]

Priorities == {"low", "medium", "high", "unknown"}
ContactMethods == {"phone", "text", "whatsapp", "unknown"}

\* C14: the lead record a run holds after extraction, and every row of
\* temp_leads, has priority in {low, medium, high, unknown} and
\* contact_method in {phone, text, whatsapp, unknown}.
C14_EnumFields ==
  /\ \A r \in Runs :
       PastExtract(r) =>
         /\ loc[r].leadObj.priority \in Priorities
         /\ loc[r].leadObj.contact_method \in ContactMethods
  /\ \A t \in temp_leads :
       t.priority \in Priorities /\ t.contact_method \in ContactMethods

\* the pipeline of invocation r has started: it is at a pipeline step, or has
\* been through one
HistoryBy(r) ==
  {x \in resolutions \cup gwCalls \cup staged \cup appends \cup notifies
          \cup replies \cup deletes : x.by.k = "run" /\ x.by.p = r}
Started(r) ==
  \/ pc[r] \in {"select", "insertBot", "reply", "extract", "stage", "sheet",
                "notify", "cleanup", "respond"}
  \/ aborted[r]
  \/ HistoryBy(r) # {}

\* C15: in every webhook invocation the 200 response has been sent to the
\* caller by the time the first pipeline step (bot resolution) starts, and so
\* it has been sent whatever those steps then do.
C15_AckBeforePipeline == \A r \in Runs : Started(r) => acked[r]

\* C16: the text of every reply sent to the customer is the completion the
\* model generated or the fixed apology, never a serialized response body.
C16_ReplyIsCompletionOrApology ==
  \A x \in replies : x.text = COMPLETION \/ x.text = APOLOGY

\* everything logged for message i of invocation r
HistoryOf(r, i) == {x \in HistoryBy(r) : x.by.n = i}
\* the bot lookup or insert of message i raised
ResolutionFailed(r, i) == aborted[r] /\ mi[r] = i

\* C17: for a message whose bot lookup or bot insert raised, no model gateway
\* call, no staging insert, no spreadsheet append, no sales notification, no
\* delete and no customer reply is ever made.
C17_ResolutionFailureDropsMessage ==
  \A r \in Runs, i \in 1..MaxBatch :
    ResolutionFailed(r, i) =>
      /\ pc[r] = "done"
      /\ \A x \in HistoryOf(r, i) : x \in resolutions

\* the first message was answered, the bot lookup of the second one raised
C17_Witness ==
  \E r \in Runs :
    /\ ResolutionFailed(r, 2) /\ NonEmpty(r, 2)
    /\ RepliesBy(RunAttempt(r, 1)) # {}
    /\ HistoryOf(r, 2) = {}

\* C18: a step of a run that appends or notifies is taken after the staging
\* insert of that message was attempted; a step that deletes is the cleanup,
\* taken after both deliveries returned confirmed; and while a run is between
\* a successful staging insert and its cleanup (append pending, notification
\* pending, cleanup pending) the row it staged is in the store, unless an
\* admin retry that confirmed both deliveries has deleted it.
C18_StageFirstCleanupLast ==
  /\ [](\A r \in Runs :
          (pc[r] \in {"sheet", "notify", "cleanup"} /\ loc[r].tempLead # 0) =>
            \/ RowPresent(loc[r].tempLead)
            \/ \E d \in deletes :
                 d.id = loc[r].tempLead /\ d.by.k = "retry" /\ d.ok)
  /\ [][\A r \in Runs :
          /\ (\E x \in (appends' \ appends) \cup (notifies' \ notifies) :
                x.by = Cur(r)) =>
               /\ pc[r] \in {"sheet", "notify"}
               /\ loc[r].tempLead # 0 <=> StagedBy(Cur(r)) # {}
          /\ (\E d \in deletes' \ deletes : d.by = Cur(r)) =>
               /\ pc[r] = "cleanup"
               /\ AppendOk(Cur(r)) /\ NotifyOk(Cur(r))
          /\ (pc[r] \in {"sheet", "notify"} /\ pc'[r] # pc[r]) =>
               temp_leads' = temp_leads]_vars

\* the run stands between a confirmed append and the notification, its row
\* in the store
C18_Witness ==
  \E r \in Runs :
    /\ pc[r] = "notify" /\ loc[r].tempLead # 0 /\ loc[r].sheetOk
    /\ AppendOk(Cur(r)) /\ RowPresent(loc[r].tempLead)
    /\ \A x \in notifies : x.by # Cur(r)

\* the text is empty or made of spaces only
IsBlank(text) == \A n \in 1..Len(text) : text[n] = " "
Entry(r, i) == event[r].present /\ i <= Len(event[r].messages)

\* C19: for an entry whose text is empty or whitespace nothing is ever done
\* (no bot lookup or insert, no model call, no staging insert, no delivery,
\* no reply), the step that skips it changes nothing but the loop position,
\* and the entries after it are still processed: when the run is over and
\* no bot resolution raised, every entry with text has been answered.
C19_BlankEntrySkipped ==
  /\ [](\A r \in Runs, i \in 1..MaxBatch :
          /\ (Entry(r, i) /\ IsBlank(event[r].messages[i])) => HistoryOf(r, i) = {}
          /\ (/\ Entry(r, i) /\ ~IsBlank(event[r].messages[i])
              /\ pc[r] = "done" /\ ~aborted[r]) =>
                RepliesBy(RunAttempt(r, i)) # {})
  /\ [][\A r \in Runs :
          (/\ pc[r] = "loop" /\ Entry(r, mi[r])
           /\ IsBlank(event[r].messages[mi[r]]) /\ mi'[r] # mi[r]) =>
            /\ mi'[r] = mi[r] + 1 /\ pc'[r] = "loop"
            /\ UNCHANGED <<store, hist, loc, acked, aborted>>]_vars

\* a blank entry was skipped and the entry after it answered
C19_Witness ==
  \E r \in Runs :
    /\ Entry(r, 2) /\ event[r].messages[1] = <<" ">>
    /\ ~IsBlank(event[r].messages[2])
    /\ pc[r] = "done" /\ HistoryOf(r, 1) = {}
    /\ RepliesBy(RunAttempt(r, 2)) # {}

\* C20: when the run of an event is over, every entry with text other than
\* one whose own bot resolution raised has been run through the pipeline and
\* answered.
C20_FailureAbortsOneMessageOnly ==
  \A r \in Runs, i \in 1..MaxBatch :
    (pc[r] = "done" /\ NonEmpty(r, i) /\ ~ResolutionFailed(r, i)) =>
      RepliesBy(RunAttempt(r, i)) # {}

GwBy(k, purpose) == {g \in gwCalls : g.by = k /\ g.purpose = purpose}
AppendsBy(k) == {x \in appends : x.by = k}
NotifiesBy(k) == {x \in notifies : x.by = k}
\* the position that follows `p` in the pipeline of one message
After(p) ==
  CASE p = "reply" -> "extract" [] p = "extract" -> "stage"
    [] p = "stage" -> "sheet" [] p = "sheet" -> "notify"
    [] p = "notify" -> "cleanup" [] p = "cleanup" -> "respond"
    [] p = "respond" -> "loop"

\* C21: once the bot of a message is resolved, the run goes through reply
\* generation, extraction, staging, append, notification, cleanup and reply
\* one after the other, each left exactly for the next whatever it and the
\* earlier ones did, never ending the run; each call is made at most once and
\* only after the calls before it, and when the message is over each has
\* been made exactly once (the append and the notification when configured).
C21_EachStateOnceInOrder ==
  /\ [](\A r \in Runs, i \in 1..MaxBatch :
          LET k == RunAttempt(r, i) IN
            /\ Cardinality(GwBy(k, "reply")) <= 1
            /\ Cardinality(GwBy(k, "extract")) <= 1
            /\ Cardinality(AppendsBy(k)) <= 1
            /\ Cardinality(NotifiesBy(k)) <= 1
            /\ Cardinality(RepliesBy(k)) <= 1
            /\ GwBy(k, "reply") # {} => Resolved(k)
            /\ GwBy(k, "extract") # {} => GwBy(k, "reply") # {}
            /\ StagedBy(k) \cup AppendsBy(k) \cup NotifiesBy(k) \cup RepliesBy(k) # {}
                 => GwBy(k, "extract") # {}
            /\ (sheetsClient /\ NotifiesBy(k) \cup RepliesBy(k) # {})
                 => AppendsBy(k) # {}
            /\ (SALES_INSTANCE_NAME /\ SALES_WHATSAPP_NUMBER /\ RepliesBy(k) # {})
                 => NotifiesBy(k) # {}
            /\ (Resolved(k) /\ MsgOver(r, i)) =>
                 /\ Cardinality(GwBy(k, "reply")) = 1
                 /\ Cardinality(GwBy(k, "extract")) = 1
                 /\ Cardinality(AppendsBy(k)) = (IF sheetsClient THEN 1 ELSE 0)
                 /\ Cardinality(NotifiesBy(k)) =
                      (IF SALES_INSTANCE_NAME /\ SALES_WHATSAPP_NUMBER THEN 1 ELSE 0)
                 /\ Cardinality(RepliesBy(k)) = 1)
  /\ [][\A r \in Runs :
          (/\ pc[r] \in {"reply", "extract", "stage", "sheet", "notify",
                          "cleanup", "respond"}
           /\ pc'[r] # pc[r]) =>
            pc'[r] = After(pc[r]) /\ ~aborted'[r]]_vars

\* both model calls, the staging insert, the append and the notification
\* failed, and the message was still answered
C21_Witness ==
  \E r \in Runs :
    LET k == RunAttempt(r, 2) IN
      /\ MsgOver(r, 2) /\ Resolved(k)
      /\ \E g \in GwBy(k, "reply") : ~g.ok
      /\ \E g \in GwBy(k, "extract") : ~g.ok
      /\ StagedBy(k) = {}
      /\ \E x \in AppendsBy(k) : ~x.ok
      /\ \E x \in NotifiesBy(k) : ~x.ok
      /\ Cardinality(RepliesBy(k)) = 1

DeletesBy(k) == {d \in deletes : d.by = k}
\* the staging insert of the message invocation r is working on has failed
StagingFailed(r) ==
  pc[r] \in {"sheet", "notify", "cleanup", "respond"} /\ loc[r].tempLead = 0

\* C22: a run whose staging insert failed goes on to the append, the
\* notification and the reply; it holds no staging record, issues no DELETE
\* (also when both deliveries are confirmed), and none of its steps from the
\* failed insert on changes temp_leads.
C22_NoStagingNoDelete ==
  /\ [](\A r \in Runs :
          /\ StagingFailed(r) => StagedBy(Cur(r)) = {} /\ DeletesBy(Cur(r)) = {}
          /\ \A i \in 1..MaxBatch :
               LET k == RunAttempt(r, i) IN
                 (Resolved(k) /\ MsgOver(r, i) /\ StagedBy(k) = {}) =>
                   /\ DeletesBy(k) = {}
                   /\ sheetsClient => AppendsBy(k) # {}
                   /\ (SALES_INSTANCE_NAME /\ SALES_WHATSAPP_NUMBER)
                        => NotifiesBy(k) # {}
                   /\ RepliesBy(k) # {})
  /\ [][\A r \in Runs :
          /\ (pc[r] = "stage" /\ pc'[r] # "stage" /\ staged' = staged) =>
               pc'[r] = "sheet" /\ temp_leads' = temp_leads
          /\ (StagingFailed(r) /\ pc'[r] # pc[r]) =>
               /\ temp_leads' = temp_leads /\ deletes' = deletes
               /\ pc'[r] = After(pc[r])]_vars

\* the staging insert of the second message failed, both its deliveries were
\* confirmed, it was answered, no DELETE was issued for it and the row of the
\* first message is still there
C22_Witness ==
  \E r \in Runs :
    LET k == RunAttempt(r, 2) IN
      /\ MsgOver(r, 2) /\ Resolved(k) /\ StagedBy(k) = {}
      /\ AppendOk(k) /\ NotifyOk(k) /\ RepliesBy(k) # {}
      /\ DeletesBy(k) = {}
      /\ RowOf(RunAttempt(r, 1)) # {}

\* C23: at the cleanup decision of a run and of a retry, notifyOk is true
\* exactly when SALES_INSTANCE_NAME and SALES_WHATSAPP_NUMBER are both set and
\* the notification sent in this attempt succeeded; when one of them is
\* missing no notification is ever sent, notifyOk is never true, no DELETE is
\* issued and every staged row stays, confirmed appends included.
C23_NotifyOkIffConfiguredAndSent ==
  /\ \A r \in Runs :
       pc[r] = "cleanup" =>
         (loc[r].notifyOk <=>
            SALES_INSTANCE_NAME /\ SALES_WHATSAPP_NUMBER /\ NotifyOk(Cur(r)))
  /\ \A a \in Admins :
       rpc[a] = "cleanup" =>
         (rloc[a].notifyOk <=>
            SALES_INSTANCE_NAME /\ SALES_WHATSAPP_NUMBER /\ NotifyOk(RetryAttempt(a)))
  /\ ~(SALES_INSTANCE_NAME /\ SALES_WHATSAPP_NUMBER) =>
       /\ notifies = {} /\ deletes = {}
       /\ \A r \in Runs : ~loc[r].notifyOk
       /\ \A a \in Admins : ~rloc[a].notifyOk /\ ~rloc[a].res.notifyOk
       /\ \A st \in staged : RowPresent(st.id)

\* the sales instance is set, the sales number is not; the append of the run
\* and the append of a retry were confirmed, and the row is still there
C23_Witness ==
  /\ SALES_INSTANCE_NAME /\ ~SALES_WHATSAPP_NUMBER
  /\ \E k \in RunKeys, a \in Admins :
       /\ Finished(k) /\ AppendOk(k) /\ RowOf(k) # {}
       /\ rpc[a] = "done" /\ AppendOk(RetryAttempt(a))
       /\ rloc[a].res.sheetOk /\ ~rloc[a].res.notifyOk /\ ~rloc[a].res.ok

\* C24: no step of the pipeline or of the retry changes or removes a row of
\* bots; the only write is the insert of one new row, with a fresh id, an
\* instance name no row had, the default model and the empty context, made by
\* the run that is at its bot insert; a step that resolves a known instance
\* and every step of a retry leave bots as it was.
C24_BotsOnlyGrowByFirstContact ==
  [][ /\ bots \subseteq bots'
      /\ Cardinality(bots' \ bots) <= 1
      /\ \A b \in bots' \ bots :
           /\ b.model = DEFAULT_MODEL /\ b.context_json = "{}"
           /\ \A x \in bots : x.id # b.id /\ x.instance_name # b.instance_name
           /\ \E r \in Runs :
                /\ pc[r] = "insertBot" /\ pc'[r] = "reply"
                /\ b.instance_name = InstanceName(event[r])
                /\ loc'[r].bot = b
                /\ [by |-> Cur(r), how |-> "created", bot |-> b.id]
                     \in resolutions' \ resolutions
      /\ (\E e \in resolutions' \ resolutions : e.how = "found") =>
           /\ bots' = bots /\ botSeq' = botSeq
           /\ \A e \in resolutions' \ resolutions :
                \E b \in bots : b.id = e.bot /\ \E r \in Runs : loc'[r].bot = b
      /\ (rpc' # rpc \/ rloc' # rloc) => bots' = bots /\ botSeq' = botSeq
    ]_vars

\* the first message created the bot, the second one resolved the same row,
\* and a retry ran to its end: bots still holds the single row as created
C24_Witness ==
  /\ \E b \in bots :
       /\ bots = {b}
       /\ b.model = DEFAULT_MODEL /\ b.context_json = "{}"
       /\ [by |-> RunAttempt(1, 1), how |-> "created", bot |-> b.id] \in resolutions
       /\ [by |-> RunAttempt(1, 2), how |-> "found", bot |-> b.id] \in resolutions
  /\ pc[1] = "done"
  /\ \E a \in Admins : rpc[a] = "done" /\ rloc[a].res.deleted

\* C25: with the invocations interleaved in any way, the ids of the staged
\* rows are unique and an id once given is never given again; a run issues a
\* DELETE only for the id its own insert returned and only after both of its
\* own deliveries were confirmed; so a row is gone only when the run that
\* staged it removed it, and a step that removes rows removes the row of the
\* run taking the step and no other.
C25_CleanupDeletesOwnRowOnly ==
  /\ [](/\ \A s1 \in staged : \A s2 \in staged : s1.id = s2.id => s1 = s2
        /\ \A t1 \in temp_leads : \A t2 \in temp_leads : t1.id = t2.id => t1 = t2
        /\ \A st \in staged : st.id \in 1..leadSeq
        /\ \A t \in temp_leads : \E st \in staged : st.id = t.id
        /\ \A d \in deletes :
             /\ d.by.k = "run"
             /\ \E st \in staged : st.by = d.by /\ st.id = d.id
             /\ AppendOk(d.by) /\ NotifyOk(d.by)
        /\ \A st \in staged :
             ~RowPresent(st.id) =>
               /\ [by |-> st.by, id |-> st.id, ok |-> TRUE] \in deletes
               /\ AppendOk(st.by) /\ NotifyOk(st.by))
  /\ [][  /\ \A t \in temp_leads' \ temp_leads :
               /\ t.id > leadSeq
               /\ \A st \in staged : st.id # t.id
          /\ \A t \in temp_leads \ temp_leads' :
               \E r \in Runs :
                 /\ pc[r] = "cleanup" /\ pc'[r] = "respond"
                 /\ t.id = loc[r].tempLead
                 /\ [by |-> Cur(r), id |-> t.id, lead |-> loc[r].leadObj] \in staged
                 /\ temp_leads \ temp_leads' = {t}
          /\ leadSeq' >= leadSeq
        ]_vars

\* two invocations for the same instance, interleaved: both staged a row, the
\* second to stage delivered both legs and removed its row while the first,
\* whose notification failed, was still under way; the first one's row stays
C25_Witness ==
  /\ event[1].instance = event[2].instance
  /\ \E s1 \in StagedBy(RunAttempt(1, 1)), s2 \in StagedBy(RunAttempt(2, 1)) :
       /\ s1.id < s2.id
       /\ [by |-> s2.by, id |-> s2.id, ok |-> TRUE] \in deletes
       /\ ~RowPresent(s2.id)
       /\ AppendOk(s1.by) /\ ~NotifyOk(s1.by) /\ NotifiesBy(s1.by) # {}
       /\ RowPresent(s1.id)
       /\ pc[1] = "cleanup"

\* C26: a retry whose lookup is answered with no row (the id was never staged,
\* or its row was already deleted) ends at once with the 404 response, and the
\* lookup step changes neither the tables nor anything sent; a retry that
\* loaded no row, whether answered 404 or cut short by a rejected lookup,
\* never appends, notifies or deletes; 404 is answered in no other case.
C26_AbsentIdNotFoundNoEffect ==
  /\ [](\A a \in Admins :
          /\ ~Found(a) =>
               /\ AppendsBy(RetryAttempt(a)) = {}
               /\ NotifiesBy(RetryAttempt(a)) = {}
               /\ DeletesBy(RetryAttempt(a)) = {}
               /\ rpc[a] \in {"idle", "done", "crashed"}
          /\ (rpc[a] = "done" /\ ~Found(a)) =>
               /\ rloc[a].res.status = 404
               /\ ~rloc[a].res.ok /\ ~rloc[a].res.deleted
          /\ rloc[a].res.status = 404 => rpc[a] = "done" /\ ~Found(a))
  /\ [][\A a \in Admins :
          (rpc[a] = "idle" /\ rpc'[a] # "idle") =>
            /\ UNCHANGED <<store, hist, runv>>
            /\ (SelectLead(rloc'[a].id) = {} /\ rpc'[a] # "crashed") =>
                 rpc'[a] = "done" /\ rloc'[a].res.status = 404
            /\ SelectLead(rloc'[a].id) # {} => rloc'[a].res.status # 404]_vars

\* one retry delivered both legs and deleted the row; another retry of the
\* same id then got 404 and did nothing
C26_Witness ==
  \E a \in Admins, b \in Admins :
    /\ a # b
    /\ rloc[b].res.deleted /\ rloc[a].id = rloc[b].id
    /\ rpc[a] = "done" /\ rloc[a].res.status = 404
    /\ AppendsBy(RetryAttempt(a)) = {} /\ NotifiesBy(RetryAttempt(a)) = {}
    /\ sheetsClient /\ SALES_INSTANCE_NAME /\ SALES_WHATSAPP_NUMBER

=============================================================================
